---- MODULE Spec2Model ----
(***************************************************************************)
(* A model of sanitize_ipynb.py: the scalar coercer to_s, the document     *)
(* normalizer sanitize_notebook and the batch driver main.                 *)
(*                                                                         *)
(* A JSON value is a record [t, s, l, d]:                                  *)
(*   t  its Python type after json.loads: "str", "int", "float", "bool",   *)
(*      "null", "list" or "dict";                                          *)
(*   s  for a str its text, for another scalar the text str(x) gives       *)
(*      ("42", "4.0", "True", "None");                                     *)
(*   l  the elements of a list;                                            *)
(*   d  the items of a dict, a function from its keys to their values: a   *)
(*      key the dict does not hold is not in DOMAIN d.                     *)
(* A file on disk is [fmt, val]: val is the JSON value its text denotes    *)
(* (Invalid when the text is not JSON), fmt tells the original bytes       *)
(* ("orig") from the text json.dumps(raw, indent=2) produces ("indent2").  *)
(***************************************************************************)
EXTENDS Integers, Sequences, FiniteSets, TLC

VARIABLES fs, strip, i, changed_any, outcome, run, reads, written, reported, last, fs0

vars == <<fs, strip, i, changed_any, outcome, run, reads, written, reported, last, fs0>>

---------------------------------------------------------------------------
(* JSON values *)

StrV(x) == [t |-> "str", s |-> x, l |-> <<>>, d |-> <<>>]
IntV(x) == [t |-> "int", s |-> x, l |-> <<>>, d |-> <<>>]
FloatV(x) == [t |-> "float", s |-> x, l |-> <<>>, d |-> <<>>]
BoolV(x) == [t |-> "bool", s |-> x, l |-> <<>>, d |-> <<>>]
None == [t |-> "null", s |-> "None", l |-> <<>>, d |-> <<>>]
List(x) == [t |-> "list", s |-> "", l |-> x, d |-> <<>>]
Dict(x) == [t |-> "dict", s |-> "", l |-> <<>>, d |-> x]
EmptyList == List(<<>>)
EmptyDict == Dict(<<>>)

\* isinstance(x, str), isinstance(x, list), isinstance(x, dict)
IsStr(x) == x.t = "str"
IsList(x) == x.t = "list"
IsDict(x) == x.t = "dict"
\* isinstance(x, int): bool is a subclass of int in Python, so True and False pass
IsInstanceInt(x) == x.t \in {"int", "bool"}
\* x is None
IsNone(x) == x.t = "null"

\* k in x, x.get(k) (None when the key is missing), x[k] = v
Has(x, k) == k \in DOMAIN x.d
Get(x, k) == IF Has(x, k) THEN x.d[k] ELSE None
Put(x, k, v) == Dict((k :> v) @@ x.d)

\* Python truthiness, as `if x:` and `x or y` test it
Truthy(x) ==
  CASE x.t = "null" -> FALSE
    [] x.t = "bool" -> x.s = "True"
    [] x.t = "int" -> x.s # "0"
    [] x.t = "float" -> x.s \notin {"0.0", "-0.0"}
    [] x.t = "str" -> x.s # ""
    [] x.t = "list" -> x.l # <<>>
    [] x.t = "dict" -> DOMAIN x.d # {}

\* x == 4 in Python: the int 4 and the float 4.0 (True == 1, never 4)
PyEq4(x) == (x.t = "int" /\ x.s = "4") \/ (x.t = "float" /\ x.s = "4.0")

RECURSIVE ConcatAll(_)
ConcatAll(ss) == IF ss = <<>> THEN "" ELSE Head(ss) \o ConcatAll(Tail(ss))

RECURSIVE JoinComma(_)
JoinComma(ss) ==
  IF ss = <<>> THEN ""
  ELSE IF Len(ss) = 1 THEN Head(ss)
  ELSE Head(ss) \o ", " \o JoinComma(Tail(ss))

\* The keys of a dict in one fixed order (the model does not keep insertion order)
KeySeq(S) == CHOOSE f \in [1..Cardinality(S) -> S] : {f[n] : n \in 1..Cardinality(S)} = S

\* repr(x), which str() uses for what a list or a dict holds
RECURSIVE PyRepr(_)
PyRepr(x) ==
  CASE x.t = "str" -> "'" \o x.s \o "'"
    [] x.t = "list" -> "[" \o JoinComma([n \in 1..Len(x.l) |-> PyRepr(x.l[n])]) \o "]"
    [] x.t = "dict" ->
         LET ks == KeySeq(DOMAIN x.d)
         IN "{" \o JoinComma([n \in 1..Len(ks) |-> "'" \o ks[n] \o "': " \o PyRepr(x.d[ks[n]])]) \o "}"
    [] OTHER -> x.s

\* str(x)
PyStr(x) == IF x.t = "str" THEN x.s ELSE PyRepr(x)

\* to_s: a str as it is, a list as the concatenation of its coerced elements,
\* anything else as str(x). Returns the text; callers store StrV(to_s(x)).
RECURSIVE to_s(_)
to_s(x) ==
  IF IsStr(x) THEN x.s
  ELSE IF IsList(x) THEN ConcatAll([n \in 1..Len(x.l) |-> to_s(x.l[n])])
  ELSE PyStr(x)

\* k.startswith("text/") and k.startswith("image/") over the MIME keys of the model
StartsWithText(k) == k \in {"text/plain", "text/html"}
StartsWithImage(k) == k \in {"image/png"}

---------------------------------------------------------------------------
(* sanitize_notebook: the top-level rules. st is [raw, changed]. *)

Mark(st, raw) == [raw |-> raw, changed |-> TRUE]

\* if raw.get("nbformat") != 4: raw["nbformat"] = 4
RuleNbformat(st) ==
  IF ~PyEq4(Get(st.raw, "nbformat")) THEN Mark(st, Put(st.raw, "nbformat", IntV("4"))) ELSE st

\* if not isinstance(raw.get("nbformat_minor"), int): raw["nbformat_minor"] = 5
RuleNbformatMinor(st) ==
  IF ~IsInstanceInt(Get(st.raw, "nbformat_minor"))
  THEN Mark(st, Put(st.raw, "nbformat_minor", IntV("5")))
  ELSE st

\* if not isinstance(md, dict): raw["metadata"] = {}
RuleMetadata(st) ==
  IF ~IsDict(Get(st.raw, "metadata")) THEN Mark(st, Put(st.raw, "metadata", EmptyDict)) ELSE st

\* md["language_info"]: a dict with a str name, else {"name": "python"} / name = "python"
RuleLanguageInfo(st) ==
  LET md == Get(st.raw, "metadata")
      li == Get(md, "language_info")
  IN IF ~IsDict(li)
     THEN Mark(st, Put(st.raw, "metadata",
                       Put(md, "language_info", Dict("name" :> StrV("python")))))
     ELSE IF ~Has(li, "name") \/ ~IsStr(li.d["name"])
          THEN Mark(st, Put(st.raw, "metadata",
                            Put(md, "language_info", Put(li, "name", StrV("python")))))
          ELSE st

\* ks.get("name") is None / ks.get("display_name") is None: only a missing or null
\* entry is filled
KernelspecFill(ks) ==
  LET k1 == IF IsNone(Get(ks, "name")) THEN Put(ks, "name", StrV("python3")) ELSE ks
  IN IF IsNone(Get(k1, "display_name")) THEN Put(k1, "display_name", StrV("Python 3")) ELSE k1

\* md["kernelspec"]: a dict, else the default one; name and display_name filled
RuleKernelspec(st) ==
  LET md == Get(st.raw, "metadata")
      ks == Get(md, "kernelspec")
  IN IF ~IsDict(ks)
     THEN Mark(st, Put(st.raw, "metadata",
                       Put(md, "kernelspec",
                           Dict(("name" :> StrV("python3")) @@ ("display_name" :> StrV("Python 3"))))))
     ELSE IF IsNone(Get(ks, "name")) \/ IsNone(Get(ks, "display_name"))
          THEN Mark(st, Put(st.raw, "metadata", Put(md, "kernelspec", KernelspecFill(ks))))
          ELSE st

\* if not isinstance(cells, list): raw["cells"] = []
RuleCells(st) ==
  IF ~IsList(Get(st.raw, "cells")) THEN Mark(st, Put(st.raw, "cells", EmptyList)) ELSE st

TopLevel(raw) ==
  RuleCells(RuleKernelspec(RuleLanguageInfo(RuleMetadata(RuleNbformatMinor(RuleNbformat(
    [raw |-> raw, changed |-> FALSE]))))))

---------------------------------------------------------------------------
(* Output normalization (normalize mode). st is [o, changed]. *)

MarkO(st, o) == [o |-> o, changed |-> TRUE]

\* if not isinstance(o.get("metadata", {}), dict): o["metadata"] = {}
\* (a missing key reads as {} and is left missing); runs before the dispatch on
\* output_type, so for every output
RuleOutMetadata(st) ==
  IF Has(st.o, "metadata") /\ ~IsDict(st.o.d["metadata"])
  THEN MarkO(st, Put(st.o, "metadata", EmptyDict))
  ELSE st

\* if fld in o and not isinstance(o[fld], str): o[fld] = to_s(o[fld])
CoerceField(st, fld) ==
  IF Has(st.o, fld) /\ ~IsStr(st.o.d[fld])
  THEN MarkO(st, Put(st.o, fld, StrV(to_s(st.o.d[fld]))))
  ELSE st

\* ot == "stream": text, then name
RuleStream(st) == CoerceField(CoerceField(st, "text"), "name")

\* the test on one item of data: must this value be coerced to a str
MustCoerce(k, v) ==
  IF StartsWithText(k) \/ k = "text/plain" \/ StartsWithImage(k)
  THEN ~IsStr(v)
  ELSE ~(IsDict(v) \/ IsList(v) \/ IsStr(v))

\* for k, v in list(data.items()): data[k] = to_s(v) where the test asks for it
CoerceData(data) ==
  Dict([k \in DOMAIN data.d |->
          IF MustCoerce(k, data.d[k]) THEN StrV(to_s(data.d[k])) ELSE data.d[k]])

\* data = o.get("data") or {}: a missing or falsy data gives a fresh local {} that
\* is never stored in o; a truthy non-dict is replaced by {}; a truthy dict is
\* coerced in place
RuleData(st) ==
  LET dv == Get(st.o, "data")
  IN IF ~Truthy(dv) THEN st
     ELSE IF ~IsDict(dv) THEN MarkO(st, Put(st.o, "data", EmptyDict))
     ELSE IF \E k \in DOMAIN dv.d : MustCoerce(k, dv.d[k])
          THEN MarkO(st, Put(st.o, "data", CoerceData(dv)))
          ELSE st

\* execute_result: if ec is not None and not isinstance(ec, int): execution_count = None
RuleResultCount(st) ==
  LET ec == Get(st.o, "execution_count")
  IN IF ~IsNone(ec) /\ ~IsInstanceInt(ec)
     THEN MarkO(st, Put(st.o, "execution_count", None))
     ELSE st

\* new_tb: [to_s(t) for t in tb] for a list, [to_s(tb)] otherwise
NewTraceback(tb) ==
  IF IsList(tb) THEN List([n \in 1..Len(tb.l) |-> StrV(to_s(tb.l[n]))])
  ELSE List(<<StrV(to_s(tb))>>)

\* if "traceback" in o: ... if new_tb != tb: o["traceback"] = new_tb
RuleTraceback(st) ==
  IF Has(st.o, "traceback") /\ NewTraceback(st.o.d["traceback"]) # st.o.d["traceback"]
  THEN MarkO(st, Put(st.o, "traceback", NewTraceback(st.o.d["traceback"])))
  ELSE st

\* ot == "error": traceback, then ename and evalue
RuleError(st) == CoerceField(CoerceField(RuleTraceback(st), "ename"), "evalue")

\* NormOutput with a final `else` where the code has `if ot == "stream"`
NormOutputElseStream(o) ==
  LET st == RuleOutMetadata([o |-> o, changed |-> FALSE])
      ot == Get(o, "output_type")
  IN IF ot = StrV("display_data") THEN RuleData(st)
     ELSE IF ot = StrV("execute_result") THEN RuleResultCount(RuleData(st))
     ELSE IF ot = StrV("error") THEN RuleError(st)
     ELSE RuleStream(st)

\* the body of `for o in outs`
NormOutput(o) ==
  LET st == RuleOutMetadata([o |-> o, changed |-> FALSE])
      ot == Get(o, "output_type")
  IN IF ot = StrV("stream") THEN RuleStream(st)
     ELSE IF ot = StrV("display_data") THEN RuleData(st)
     ELSE IF ot = StrV("execute_result") THEN RuleResultCount(RuleData(st))
     ELSE IF ot = StrV("error") THEN RuleError(st)
     ELSE st

---------------------------------------------------------------------------
(* Per-cell rules. st is [c, changed]. *)

MarkC(st, c) == [c |-> c, changed |-> TRUE]

\* RuleId without the test `not cid`: an empty id is kept
RuleIdKeepsEmpty(st, newid) ==
  LET cid == Get(st.c, "id")
  IN IF IsNone(cid) \/ ~IsStr(cid) THEN MarkC(st, Put(st.c, "id", StrV(newid))) ELSE st

\* if cid is None or not isinstance(cid, str) or not cid: c["id"] = uuid.uuid4().hex[:8]
RuleId(st, newid) ==
  LET cid == Get(st.c, "id")
  IN IF IsNone(cid) \/ ~IsStr(cid) \/ ~Truthy(cid)
     THEN MarkC(st, Put(st.c, "id", StrV(newid)))
     ELSE st

\* if "source" in c and not isinstance(c["source"], str): c["source"] = to_s(c["source"])
RuleSource(st) ==
  IF Has(st.c, "source") /\ ~IsStr(st.c.d["source"])
  THEN MarkC(st, Put(st.c, "source", StrV(to_s(st.c.d["source"]))))
  ELSE st

\* if not isinstance(c.get("metadata", {}), dict): c["metadata"] = {}
\* (a missing key reads as {} and is NOT stored)
RuleCellMetadata(st) ==
  IF Has(st.c, "metadata") /\ ~IsDict(st.c.d["metadata"])
  THEN MarkC(st, Put(st.c, "metadata", EmptyDict))
  ELSE st

\* new_tags = [to_s(t) for t in tags if t is not None]
NewTags(tags) ==
  LET kept == SelectSeq(tags.l, LAMBDA t : ~IsNone(t))
  IN List([n \in 1..Len(kept) |-> StrV(to_s(kept[n]))])

\* RuleTags without the test new_tags != tags
RuleTagsAlways(st) ==
  LET md == st.c.d["metadata"]
      tags == Get(md, "tags")
  IN IF IsList(tags)
     THEN MarkC(st, Put(st.c, "metadata", Put(md, "tags", NewTags(tags))))
     ELSE st

\* tags = c["metadata"].get("tags"); a list is replaced when new_tags != tags
RuleTags(st) ==
  LET md == st.c.d["metadata"]
      tags == Get(md, "tags")
  IN IF IsList(tags) /\ NewTags(tags) # tags
     THEN MarkC(st, Put(st.c, "metadata", Put(md, "tags", NewTags(tags))))
     ELSE st

\* exec_md = c["metadata"].get("execution"); every value that is not a str is coerced
RuleExecution(st) ==
  LET md == st.c.d["metadata"]
      ex == Get(md, "execution")
  IN IF IsDict(ex) /\ (\E k \in DOMAIN ex.d : ~IsStr(ex.d[k]))
     THEN MarkC(st, Put(st.c, "metadata",
                        Put(md, "execution",
                            Dict([k \in DOMAIN ex.d |->
                                    IF IsStr(ex.d[k]) THEN ex.d[k] ELSE StrV(to_s(ex.d[k]))]))))
     ELSE st

\* markdown/raw cells: attachments, if present and not a dict, becomes {}
RuleAttachments(st) ==
  IF Get(st.c, "cell_type") \in {StrV("markdown"), StrV("raw")}
     /\ Has(st.c, "attachments") /\ ~IsDict(st.c.d["attachments"])
  THEN MarkC(st, Put(st.c, "attachments", EmptyDict))
  ELSE st

\* strip mode, first half: if c.get("outputs"): changed = True; then c["outputs"] = []
\* whatever it was, missing included
StripOutputs(st) ==
  [c |-> Put(st.c, "outputs", EmptyList),
   changed |-> st.changed \/ Truthy(Get(st.c, "outputs"))]

\* strip mode, second half: a non-null execution_count becomes None
StripCount(st) ==
  IF ~IsNone(Get(st.c, "execution_count"))
  THEN MarkC(st, Put(st.c, "execution_count", None))
  ELSE st

\* normalize mode: outs = c.get("outputs") or []; a non-list outs is replaced by [];
\* each output of a list is normalized in place. A missing or falsy outputs gives a
\* local [] that is never stored in c.
NormalizeOutputs(st) ==
  LET ov == Get(st.c, "outputs")
  IN IF ~Truthy(ov) THEN st
     ELSE IF ~IsList(ov) THEN MarkC(st, Put(st.c, "outputs", EmptyList))
     ELSE IF \E n \in 1..Len(ov.l) : NormOutput(ov.l[n]).changed
          THEN MarkC(st, Put(st.c, "outputs",
                             List([n \in 1..Len(ov.l) |-> NormOutput(ov.l[n]).o])))
          ELSE st

\* normalize mode: the cell's execution_count, if not None and not an int, becomes None
RuleCellCount(st) ==
  LET ec == Get(st.c, "execution_count")
  IN IF ~IsNone(ec) /\ ~IsInstanceInt(ec)
     THEN MarkC(st, Put(st.c, "execution_count", None))
     ELSE st

\* if c.get("cell_type") == "code": strip or normalize
RuleOutputs(st, strip_outputs) ==
  IF Get(st.c, "cell_type") = StrV("code")
  THEN IF strip_outputs THEN StripCount(StripOutputs(st))
       ELSE RuleCellCount(NormalizeOutputs(st))
  ELSE st

\* The places where the loop body raises: c.get on a cell that is not a dict
\* (AttributeError), c["metadata"] when the key is missing (KeyError), o.get on
\* an output that is not a dict (AttributeError, normalize mode only)
CellRaises(c, strip_outputs) ==
  \/ ~IsDict(c)
  \/ ~Has(c, "metadata")
  \/ /\ Get(c, "cell_type") = StrV("code")
     /\ ~strip_outputs
     /\ IsList(Get(c, "outputs"))
     /\ \E n \in 1..Len(Get(c, "outputs").l) : ~IsDict(Get(c, "outputs").l[n])

\* the body of `for c in cells`, for a cell on which it does not raise
SanitizeCell(c, strip_outputs, newid) ==
  RuleOutputs(RuleAttachments(RuleExecution(RuleTags(RuleCellMetadata(RuleSource(
    RuleId([c |-> c, changed |-> FALSE], newid)))))), strip_outputs)

---------------------------------------------------------------------------
(* sanitize_notebook as a whole, and the files it reads and writes *)

\* file text that json.loads rejects (JSONDecodeError)
Invalid == [t |-> "invalid", s |-> "", l |-> <<>>, d |-> <<>>]

\* the cells the loop visits: raw["cells"] after the top-level rules
CellsOf(raw) == Get(RuleCells([raw |-> raw, changed |-> FALSE]).raw, "cells").l

\* how many cells get a fresh id drawn for them: one draw per cell at most
NumCells(content) == IF IsDict(content) THEN Len(CellsOf(content)) ELSE 0

\* sanitize_notebook up to its write: [raised, changed, raw]. ids[n] is the token
\* uuid.uuid4().hex[:8] yields if cell n needs one.
\* Raises: json.loads on invalid text; raw.get when the top level is no dict
\* (AttributeError); the loop body (CellRaises).
Normalize(content, strip_outputs, ids) ==
  IF content = Invalid \/ ~IsDict(content)
  THEN [raised |-> TRUE, changed |-> FALSE, raw |-> content]
  ELSE LET top == TopLevel(content)
           cells == Get(top.raw, "cells").l
           res == [n \in 1..Len(cells) |-> SanitizeCell(cells[n], strip_outputs, ids[n])]
       IN IF \E n \in 1..Len(cells) : CellRaises(cells[n], strip_outputs)
          THEN [raised |-> TRUE, changed |-> FALSE, raw |-> content]
          ELSE [raised |-> FALSE,
                changed |-> top.changed \/ (\E n \in 1..Len(cells) : res[n].changed),
                raw |-> Put(top.raw, "cells", List([n \in 1..Len(cells) |-> res[n].c]))]

\* if changed: path.write_text(json.dumps(raw, ensure_ascii=False, indent=2))
WriteBack(files, n, r) ==
  IF r.changed THEN [files EXCEPT ![n] = [fmt |-> "indent2", val |-> r.raw]] ELSE files

\* changed_any = sanitize_notebook(...): the flag of the last file only
LastChanged(any, changed) == changed

\* if sanitize_notebook(...): changed_any = True
NextChangedAny(any, changed) == any \/ changed

\* the end of main: sys.exit(2) if changed_any, else return 0
ExitOutcome(any) == IF any THEN "changes" ELSE "clean"

\* the exit status of each outcome: sys.exit(2), sys.exit(main()) with main() = 0,
\* and 1 for the traceback of an uncaught exception
ExitCode(o) == CASE o = "changes" -> 2 [] o = "clean" -> 0 [] o = "fatal" -> 1

---------------------------------------------------------------------------
(* Bounds *)

\* files a run discovers, at most
MaxFiles == 3
\* cells of a document, at most
MaxCells == 2
\* outputs of a code cell, at most
MaxOutputs == 2
\* invocations of the tool on the same tree
MaxRuns == 2

\* the tokens uuid.uuid4().hex[:8] may yield (two, so that two cells may collide)
Tokens == {"1a2b3c4d", "deadbeef"}

SeqsUpTo(S, n) == UNION {[1..k -> S] : k \in 0..n}

---------------------------------------------------------------------------
(* The documents the runs start from *)

\* a key left out of a dict under construction (not a JSON value)
Absent == [t |-> "absent", s |-> "", l |-> <<>>, d |-> <<>>]

\* the dict holding the entries of f that are not Absent
MkDict(f) == Dict([k \in {k \in DOMAIN f : f[k] # Absent} |-> f[k]])

CleanMetadata ==
  MkDict([language_info |-> Dict("name" :> StrV("python")),
          kernelspec |-> MkDict([name |-> StrV("python3"), display_name |-> StrV("Python 3")])])

\* a document whose top level needs no repair, around the given cells
CleanTop(cells) ==
  MkDict([nbformat |-> IntV("4"), nbformat_minor |-> IntV("5"),
          metadata |-> CleanMetadata, cells |-> cells])

CodeCell(id, source, metadata, outputs, ec) ==
  MkDict([cell_type |-> StrV("code"), id |-> id, source |-> source, metadata |-> metadata,
          outputs |-> outputs, execution_count |-> ec])

TextCell(type, id, source, metadata, attachments) ==
  MkDict([cell_type |-> type, id |-> id, source |-> source, metadata |-> metadata,
          attachments |-> attachments])

CleanCode == CodeCell(StrV("c1"), StrV("print(1)"), EmptyDict, EmptyList, None)
CleanMarkdown == TextCell(StrV("markdown"), StrV("m1"), StrV("# T"), EmptyDict, Absent)
StreamOut(text) == MkDict([output_type |-> StrV("stream"), name |-> StrV("stdout"), text |-> text])
RanCode ==
  CodeCell(StrV("c2"), StrV("print(2)"), EmptyDict, List(<<StreamOut(StrV("2"))>>), IntV("1"))

(* Top-level variations *)
NbformatVals == {Absent, IntV("4"), FloatV("4.0"), IntV("3"), BoolV("True")}
MinorVals == {Absent, IntV("2"), StrV("5"), BoolV("True"), FloatV("5.0")}
LanguageInfoVals ==
  {Absent, StrV("python"), EmptyDict, Dict("name" :> StrV("R")), Dict("name" :> IntV("3")),
   Dict("version" :> StrV("3.11"))}
KernelspecVals ==
  {Absent, IntV("0"), EmptyDict,
   MkDict([name |-> None]),
   MkDict([name |-> IntV("3"), display_name |-> StrV("Python 3")]),
   MkDict([name |-> StrV("ir"), display_name |-> StrV("R")]),
   MkDict([name |-> StrV("ir"), display_name |-> List(<<StrV("R")>>)])}
MetadataVals ==
  {Absent, EmptyList, StrV("m")}
  \cup {MkDict([language_info |-> li, kernelspec |-> ks]) :
          li \in LanguageInfoVals, ks \in KernelspecVals}
CellsVals ==
  {Absent, EmptyDict, EmptyList,
   List(<<TextCell(StrV("markdown"), IntV("0"), List(<<StrV("a"), StrV("b")>>), EmptyDict, Absent),
          RanCode>>),
   List(<<IntV("1")>>)}
TopDocs ==
  {MkDict([nbformat |-> a, nbformat_minor |-> b, metadata |-> m, cells |-> c]) :
     a \in NbformatVals, b \in MinorVals, m \in MetadataVals, c \in CellsVals}

(* Cell variations *)
IdVals == {Absent, None, IntV("0"), StrV(""), StrV("c1")}
SourceVals == {Absent, StrV("x = 1"), List(<<StrV("a"), StrV("b")>>), IntV("7")}
CellMetadataVals ==
  {Absent, EmptyDict, IntV("1"),
   Dict("tags" :> List(<<StrV("t"), None, IntV("2")>>)),
   Dict("tags" :> List(<<StrV("t")>>)),
   Dict("tags" :> StrV("t")),
   Dict("execution" :> Dict("iopub.status.busy" :> IntV("0"))),
   Dict("execution" :> Dict("iopub.status.busy" :> StrV("2026")))}
OutputsVals ==
  {Absent, None, EmptyList, EmptyDict, StrV(""), StrV("out"), Dict("a" :> IntV("1")),
   List(<<StreamOut(StrV("hi"))>>), List(<<StreamOut(List(<<StrV("h"), StrV("i")>>))>>),
   List(<<StrV("hi")>>)}
CountVals == {Absent, None, IntV("3"), StrV("3"), BoolV("True"), FloatV("1.5")}
AttachmentsVals == {Absent, EmptyDict, EmptyList}
RichCells ==
  {TextCell(t, a, b, c, Absent) :
     t \in {StrV("code"), StrV("markdown"), Absent},
     a \in IdVals, b \in SourceVals, c \in CellMetadataVals}
  \cup {CodeCell(a, StrV("x"), c, d, e) :
          a \in {Absent, StrV("c1")}, c \in {Absent, EmptyDict, IntV("1")},
          d \in OutputsVals, e \in CountVals}
  \cup {TextCell(t, StrV("m1"), StrV("x"), c, d) :
          t \in {StrV("markdown"), StrV("raw"), StrV("code"), Absent},
          c \in {Absent, EmptyDict}, d \in AttachmentsVals}
  \cup {StrV("cell"), None}
SmallCells == {CleanMarkdown, RanCode}
CellDocs ==
  {CleanTop(List(<<c>> \o tail)) : c \in RichCells, tail \in SeqsUpTo(SmallCells, MaxCells - 1)}

(* Output variations *)
OutMetadataVals == {Absent, EmptyDict, IntV("1"), EmptyList}
TextVals == {Absent, StrV("hi"), List(<<StrV("h"), IntV("1")>>), IntV("5")}
NameVals == {Absent, StrV("stdout"), IntV("1")}
DataVals ==
  {Absent, None, EmptyDict, EmptyList, StrV(""), IntV("0"), IntV("5"), List(<<StrV("x")>>),
   Dict("text/plain" :> IntV("42")),
   Dict("text/plain" :> StrV("42")),
   Dict("text/html" :> List(<<StrV("<b>"), StrV("</b>")>>)),
   Dict("image/png" :> EmptyDict),
   Dict(("text/plain" :> StrV("r")) @@ ("application/json" :> IntV("1"))),
   Dict("application/json" :> Dict("a" :> IntV("1"))),
   Dict("application/json" :> List(<<IntV("1")>>)),
   Dict("application/json" :> None),
   Dict("application/json" :> StrV("{}"))}
TracebackVals == {Absent, StrV("boom"), IntV("1"), List(<<StrV("a"), IntV("1")>>), List(<<StrV("a")>>)}
ErrFieldVals == {Absent, StrV("E"), IntV("1")}
RichOutputs ==
  {MkDict([output_type |-> StrV("stream"), metadata |-> m, text |-> a, name |-> b]) :
     m \in OutMetadataVals, a \in TextVals, b \in NameVals}
  \cup {MkDict([output_type |-> StrV("display_data"), metadata |-> m, data |-> a]) :
          m \in OutMetadataVals, a \in DataVals}
  \cup {MkDict([output_type |-> StrV("execute_result"), metadata |-> m, data |-> a,
                execution_count |-> b]) :
          m \in OutMetadataVals, a \in DataVals, b \in CountVals}
  \cup {MkDict([output_type |-> StrV("error"), metadata |-> m, traceback |-> a, ename |-> b,
                evalue |-> c]) :
          m \in OutMetadataVals, a \in TracebackVals, b \in ErrFieldVals, c \in ErrFieldVals}
  \cup {MkDict([output_type |-> t, metadata |-> m, text |-> a, data |-> b]) :
          t \in {StrV("update_display_data"), IntV("1"), Absent},
          m \in OutMetadataVals, a \in {Absent, IntV("5")}, b \in {Absent, EmptyList}}
  \cup {StrV("output")}
SmallOutputs == {StreamOut(StrV("ok")), MkDict([output_type |-> StrV("future"), metadata |-> IntV("1")])}
OutDocs ==
  {CleanTop(List(<<CodeCell(StrV("c1"), StrV("x"), EmptyDict, List(<<o>> \o tail), e)>>)) :
     o \in RichOutputs, tail \in SeqsUpTo(SmallOutputs, MaxOutputs - 1), e \in {None, StrV("1")}}

(* Batch variations: a clean document, two that need repair, and three on which
   the pass raises *)
BatchDocs ==
  {CleanTop(List(<<CleanCode, CleanMarkdown>>)),
   CleanTop(List(<<RanCode>>)),
   MkDict([cells |-> List(<<TextCell(StrV("markdown"), IntV("0"), StrV("a"), EmptyDict, Absent)>>)]),
   Invalid,
   EmptyList,
   CleanTop(List(<<TextCell(StrV("markdown"), StrV("m1"), StrV("a"), Absent, Absent)>>))}

---------------------------------------------------------------------------
(* The batch driver main as a state machine.
     fs          the discovered files, in glob order: [fmt, val] each
     strip       args.strip_outputs or STRIP_OUTPUTS
     i           the position of the loop `for path in files`
     changed_any main's flag
     outcome     "running", or how the process ended
     run         the number of this invocation of the tool on the tree
   and, to state the properties:
     reads       the files read so far in this run, in order
     written     the files written so far in this run, in order
     reported    the files for which sanitize_notebook returned True
     last        the last call of sanitize_notebook: the file, the parsed input,
                 the document in memory at the return, the flag, whether it raised
     fs0         the files as this run found them *)

NoCall == [idx |-> 0, before |-> None, mem |-> None, changed |-> FALSE, raised |-> FALSE]

Start(files) ==
  /\ fs = files
  /\ strip \in BOOLEAN
  /\ i = 1
  /\ changed_any = FALSE
  /\ outcome = "running"
  /\ run = 1
  /\ reads = <<>>
  /\ written = <<>>
  /\ reported = {}
  /\ last = NoCall
  /\ fs0 = files

OnDisk(doc) == [fmt |-> "orig", val |-> doc]

InitBatch == \E docs \in SeqsUpTo(BatchDocs, MaxFiles) :
               Start([n \in 1..Len(docs) |-> OnDisk(docs[n])])
InitTop == \E doc \in TopDocs : Start(<<OnDisk(doc)>>)
InitCell == \E doc \in CellDocs : Start(<<OnDisk(doc)>>)
InitOut == \E doc \in OutDocs : Start(<<OnDisk(doc)>>)
Init == InitBatch \/ InitTop \/ InitCell \/ InitOut

\* one iteration of the loop in main, sanitize_notebook returning: the file is
\* read, normalized and, if changed, written; "Sanitized: path" is printed
Process ==
  /\ outcome = "running"
  /\ i <= Len(fs)
  /\ \E ids \in [1..NumCells(fs[i].val) -> Tokens] :
       LET r == Normalize(fs[i].val, strip, ids)
       IN /\ ~r.raised
          /\ fs' = WriteBack(fs, i, r)
          /\ written' = IF r.changed THEN Append(written, i) ELSE written
          /\ reported' = IF r.changed THEN reported \cup {i} ELSE reported
          /\ changed_any' = NextChangedAny(changed_any, r.changed)
          /\ last' = [idx |-> i, before |-> fs[i].val, mem |-> r.raw,
                      changed |-> r.changed, raised |-> FALSE]
  /\ reads' = Append(reads, i)
  /\ i' = i + 1
  /\ UNCHANGED <<strip, outcome, run, fs0>>

\* Abort with the exception swallowed: the loop goes on to the next file
AbortSwallowed ==
  /\ outcome = "running"
  /\ i <= Len(fs)
  /\ Normalize(fs[i].val, strip, [n \in 1..NumCells(fs[i].val) |-> "1a2b3c4d"]).raised
  /\ reads' = Append(reads, i)
  /\ last' = [idx |-> i, before |-> fs[i].val, mem |-> fs[i].val,
              changed |-> FALSE, raised |-> TRUE]
  /\ i' = i + 1
  /\ UNCHANGED <<fs, strip, outcome, changed_any, run, written, reported, fs0>>

\* sanitize_notebook raising: nothing catches it in main, the process dies with
\* the traceback and writes nothing
Abort ==
  /\ outcome = "running"
  /\ i <= Len(fs)
  /\ Normalize(fs[i].val, strip, [n \in 1..NumCells(fs[i].val) |-> "1a2b3c4d"]).raised
  /\ reads' = Append(reads, i)
  /\ last' = [idx |-> i, before |-> fs[i].val, mem |-> fs[i].val,
              changed |-> FALSE, raised |-> TRUE]
  /\ outcome' = "fatal"
  /\ UNCHANGED <<fs, strip, i, changed_any, run, written, reported, fs0>>

\* after the loop: sys.exit(2) or return 0
Finish ==
  /\ outcome = "running"
  /\ i > Len(fs)
  /\ outcome' = ExitOutcome(changed_any)
  /\ UNCHANGED <<fs, strip, i, changed_any, run, reads, written, reported, last, fs0>>

\* the tool is run again on the tree as the last run left it, in the same mode
Rerun ==
  /\ outcome # "running"
  /\ run < MaxRuns
  /\ run' = run + 1
  /\ i' = 1
  /\ changed_any' = FALSE
  /\ outcome' = "running"
  /\ reads' = <<>>
  /\ written' = <<>>
  /\ reported' = {}
  /\ last' = NoCall
  /\ fs0' = fs
  /\ UNCHANGED <<fs, strip>>

Next == Process \/ Abort \/ Finish \/ Rerun

Spec == InitBatch /\ [][Next]_vars
SpecTop == InitTop /\ [][Next]_vars
SpecCell == InitCell /\ [][Next]_vars
SpecOut == InitOut /\ [][Next]_vars
SpecAll == Init /\ [][Next]_vars

---------------------------------------------------------------------------
(* Properties *)

\* the last call of sanitize_notebook returned
Done == last.idx # 0 /\ ~last.raised
\* the document that call left on disk
Stored == fs[last.idx].val
\* the cells of a normalized document
CellsIn(doc) == Get(doc, "cells").l
\* cell n is a code cell
IsCode(c) == IsDict(c) /\ Get(c, "cell_type") = StrV("code")
\* the outputs of a cell that holds a list of them, else none
OutputsIn(c) == IF IsDict(c) /\ IsList(Get(c, "outputs")) THEN Get(c, "outputs").l ELSE <<>>

(* C1. Idempotence: when the tool runs again, in the same mode, on the tree a
   run left behind, every pass that completes returns changed = false, writes
   nothing and leaves every file as that run found it. *)
Idempotent ==
  (run >= 2 /\ Done) => (~last.changed /\ written = <<>> /\ reported = {} /\ fs = fs0)

\* a second pass completed on a document the first pass had rewritten
IdempotentWitness ==
  /\ run = 2
  /\ Done
  /\ fs0[last.idx].fmt = "indent2"
  /\ Stored = fs0[last.idx].val

(* C2. Postcondition: after a pass that completes, in the document in memory
   and in the document on disk, nbformat equals 4, nbformat_minor is an int,
   every cell has a non-empty str id, and every cell's source, if present, is
   a str. *)
VersionAndCellsOk(doc) ==
  /\ Has(doc, "nbformat") /\ PyEq4(doc.d["nbformat"])
  /\ Has(doc, "nbformat_minor") /\ IsInstanceInt(doc.d["nbformat_minor"])
  /\ IsList(Get(doc, "cells"))
  /\ \A n \in 1..Len(CellsIn(doc)) :
       LET c == CellsIn(doc)[n]
       IN /\ IsDict(c)
          /\ Has(c, "id") /\ IsStr(c.d["id"]) /\ c.d["id"].s # ""
          /\ (Has(c, "source") => IsStr(c.d["source"]))
MetadataInvariant ==
  Done =>
    LET md == Get(last.mem, "metadata")
        li == Get(md, "language_info")
        ks == Get(md, "kernelspec")
    IN /\ IsDict(md)
       /\ IsDict(li) /\ IsStr(Get(li, "name"))
       /\ IsDict(ks) /\ IsStr(Get(ks, "name")) /\ IsStr(Get(ks, "display_name"))

(* C4. The changed flag, as claimed: after a pass that completes, changed is
   true exactly when the document in memory differs from the parsed input, and
   a document that differs is the one on disk. *)
ChangedIffMutated ==
  Done => /\ (last.changed <=> last.mem # last.before)
          /\ (last.mem # last.before => Stored = last.mem)

(* C5. Strip mode, as claimed: after a pass in strip mode that completes, every
   code cell has outputs [] and execution_count null (or none), in memory and
   in the document on disk. *)
Stripped(doc) ==
  \A n \in 1..Len(CellsIn(doc)) :
    IsCode(CellsIn(doc)[n]) =>
      /\ Has(CellsIn(doc)[n], "outputs") /\ CellsIn(doc)[n].d["outputs"] = EmptyList
      /\ IsNone(Get(CellsIn(doc)[n], "execution_count"))
StripPostcondition == (Done /\ strip) => (Stripped(last.mem) /\ Stripped(Stored))

(* C6. No error for coercible input, as claimed: a document that is valid JSON
   with a dict at the top level, whose cells and outputs are dicts, never makes
   the pass raise, whichever of the fields the rules cover is missing, null or
   of a wrong type. *)
Coercible(doc) ==
  /\ doc # Invalid
  /\ IsDict(doc)
  /\ \A n \in 1..NumCells(doc) :
       /\ IsDict(CellsOf(doc)[n])
       /\ \A k \in 1..Len(OutputsIn(CellsOf(doc)[n])) : IsDict(OutputsIn(CellsOf(doc)[n])[k])
NoErrorForCoercible == (last.idx # 0 /\ Coercible(last.before)) => ~last.raised

(* C7. Batch outcome: a run that ends without a fatal error has read every
   file and ends "changes made" (exit 2) exactly when sanitize_notebook
   returned True for some file, and "all clean" (exit 0) otherwise; with no
   file discovered it ends "all clean" and nothing is written; both exit codes
   differ from the one of a fatal error. *)
BatchOutcome ==
  /\ outcome \in {"changes", "clean"} =>
       /\ Len(reads) = Len(fs)
       /\ ~last.raised
       /\ (outcome = "changes" <=> reported # {})
       /\ (ExitCode(outcome) = 2 <=> reported # {})
       /\ (ExitCode(outcome) = 0 <=> reported = {})
       /\ ExitCode(outcome) # ExitCode("fatal")
  /\ (outcome # "running" /\ Len(fs) = 0) => (outcome = "clean" /\ written = <<>>)

\* a run over three files ended "changes made" with one file changed, and the
\* files after it clean
BatchOutcomeWitness ==
  /\ outcome = "changes"
  /\ Len(fs) = 3
  /\ reported = {1}

(* C8. Abort on the first fatal failure: files are read one after another in
   discovery order, a file is written only right after it was read and only if
   the pass completed on it; when the pass raises on a file the run ends with
   the fatal outcome at once: that file and every later one are left as found
   and unread, the files rewritten before stay rewritten, and nothing more
   happens in that run. *)
AbortState ==
  /\ reads = [n \in 1..Len(reads) |-> n]
  /\ \A n \in 1..Len(written) : written[n] \in reported /\ written[n] <= Len(reads)
  /\ last.raised => (outcome = "fatal" /\ last.idx = i /\ Len(reads) = i)
  /\ outcome = "fatal" =>
       /\ last.raised
       /\ \A n \in 1..Len(written) : written[n] < i
       /\ \A n \in i..Len(fs) : fs[n] = fs0[n]
       /\ \A n \in 1..(i - 1) : n \in reported => (fs[n].fmt = "indent2" /\ fs[n] # fs0[n])
       /\ ExitCode(outcome) \notin {ExitCode("changes"), ExitCode("clean")}
AbortStep ==
  /\ (outcome = "fatal" /\ run' = run) => UNCHANGED vars
  /\ (run' = run /\ written' # written) =>
       (reads' # reads /\ written' = Append(written, Len(reads')))
  /\ (run' = run /\ reads' # reads) => reads' = Append(reads, Len(reads) + 1)
AbortOnFatal == []AbortState /\ [][AbortStep]_vars

\* the pass raised on the second of three files after the first was rewritten;
\* the third, which needs repair, is left as found
AbortOnFatalWitness ==
  /\ outcome = "fatal"
  /\ Len(fs) = 3
  /\ last.idx = 2
  /\ written = <<1>>
  /\ fs[3] = fs0[3]
  /\ ~PyEq4(Get(fs[3].val, "nbformat"))

(* C9. Passthrough of an output whose output_type is unknown or missing, in
   normalize mode. Unknown(o) tells such an output of a code cell. *)
KnownTypes == {StrV("stream"), StrV("display_data"), StrV("execute_result"), StrV("error")}
Unknown(o) == IsDict(o) /\ Get(o, "output_type") \notin KnownTypes
\* the places <<n, k>> of the unknown outputs of the code cells of the input
UnknownPlaces ==
  {pl \in UNION {{<<n, k>> : k \in 1..Len(OutputsIn(CellsOf(last.before)[n]))} :
                   n \in 1..NumCells(last.before)} :
     /\ IsCode(CellsOf(last.before)[pl[1]])
     /\ Unknown(OutputsIn(CellsOf(last.before)[pl[1]])[pl[2]])}
OutputBefore(pl) == OutputsIn(CellsOf(last.before)[pl[1]])[pl[2]]
\* the output at the same place after the pass (None if the place is gone)
OutputAfter(pl) ==
  IF pl[2] <= Len(OutputsIn(CellsIn(last.mem)[pl[1]]))
  THEN OutputsIn(CellsIn(last.mem)[pl[1]])[pl[2]]
  ELSE None

\* as claimed: the output is the same after the pass as before, metadata included
PassthroughEntire ==
  (Done /\ ~strip) => \A pl \in UnknownPlaces : OutputAfter(pl) = OutputBefore(pl)

\* as amended: every field but metadata is the same after the pass as before;
\* metadata is the same if it is missing or a dict, and {} otherwise
MetadataRepaired(o) ==
  IF Has(o, "metadata") /\ ~IsDict(o.d["metadata"]) THEN Put(o, "metadata", EmptyDict) ELSE o
PassthroughButMetadata ==
  (Done /\ ~strip) => \A pl \in UnknownPlaces : OutputAfter(pl) = MetadataRepaired(OutputBefore(pl))

\* a pass in normalize mode completed on a code cell with an unknown output
\* whose metadata is no dict and whose text is no str
PassthroughWitness ==
  /\ Done /\ ~strip
  /\ \E n \in 1..NumCells(last.before) :
       /\ IsCode(CellsOf(last.before)[n])
       /\ \E k \in 1..Len(OutputsIn(CellsOf(last.before)[n])) :
            LET o == OutputsIn(CellsOf(last.before)[n])[k]
            IN /\ Unknown(o)
               /\ Has(o, "metadata") /\ ~IsDict(o.d["metadata"])
               /\ Has(o, "text") /\ ~IsStr(o.d["text"])

(* C10. Data payload, as claimed: after a pass in normalize mode that
   completes, the data field of every display_data or execute_result output,
   if the output has one, is a dict; in it every value under a text/ or image/
   key is a str and every other value is a dict, a list or a str. *)
DataOk(o) ==
  (IsDict(o) /\ Get(o, "output_type") \in {StrV("display_data"), StrV("execute_result")}
   /\ Has(o, "data")) =>
    /\ IsDict(o.d["data"])
    /\ \A k \in DOMAIN o.d["data"].d :
         IF k \in {"text/plain", "text/html", "image/png"}
         THEN o.d["data"].d[k].t = "str"
         ELSE o.d["data"].d[k].t \in {"dict", "list", "str"}
DataPayload ==
  (Done /\ ~strip) =>
    \A n \in 1..Len(CellsIn(last.mem)) :
      IsCode(CellsIn(last.mem)[n]) =>
        \A k \in 1..Len(OutputsIn(CellsIn(last.mem)[n])) : DataOk(OutputsIn(CellsIn(last.mem)[n])[k])

====
